---- MODULE Spec2Model ----
(***************************************************************************)
(* The RAG agent service of SyedWasifAli1/rag-agent-chatbot.               *)
(*                                                                         *)
(* Four Python files hold variations of the same flow:                     *)
(*   main.py              FastAPI service, CORS, guarded retrieve          *)
(*   fastapi_rag_agent.py FastAPI service, unguarded                       *)
(*   rag_agents.py        script: runs the agent once                      *)
(*   retrieving.py        script: runs retrieve once                       *)
(* One of them is the running program (variable file).  Module level code  *)
(* runs statement group by statement group (variable pc); a request        *)
(* handler runs as one step and leaves what the client and the server log  *)
(* saw of it in variable last, together with the external calls it made.   *)
(* The three hosted services (Cohere embed, Qdrant, the model provider     *)
(* behind Runner.run_sync) are the environment: their health and the       *)
(* content of the vector index are state that drifts between requests.     *)
(***************************************************************************)
EXTENDS Integers, Sequences, FiniteSets

VARIABLES file, env, pc, fatal, constructed, routes,
          cohereSvc, qdrantSvc, modelSvc, index, last

vars == <<file, env, pc, fatal, constructed, routes,
          cohereSvc, qdrantSvc, modelSvc, index, last>>

----------------------------------------------------------------------------
(* Bounds of the model *)

\* most entries the vector index holds (top_k is 5, so 6 exercises the limit)
IndexMax == 6
\* most index entries without a usable text (no "text" key, or no payload)
MaxDefects == 1
\* most times the agent runtime invokes the retrieve tool within one run
MaxToolCalls == 2

----------------------------------------------------------------------------
(* Program constants *)

Files == {"main.py", "fastapi_rag_agent.py", "rag_agents.py", "retrieving.py"}
ServiceFiles == {"main.py", "fastapi_rag_agent.py"}

RequiredVars == {"GEMINI_API_KEY", "COHERE_API_KEY", "QDRANT_URL", "QDRANT_API_KEY"}

\* limit= left out of the call: query_points then uses its default of 10
top_k_omitted == 2 * 5

\* limit=5 of query_points
top_k == 5
collection_name == "humanoid_ai_book"

\* os.getenv gives None (here <<>>) or a string (here <<s>>)
None == <<>>
EnvValues == {None, <<"">>, <<"secret">>}

Whitespace == {" ", "\t", "\n"}
\* request bodies: the empty query, all-whitespace queries, padded and plain text
Queries == { <<>>, <<" ">>, <<"\t", " ">>, <<"a">>, <<" ", "a", " ">> }
\* input= of rag_agents.py's __main__ block and the argument of retrieving.py's test
ScriptQuery == <<"a">>

ExcTexts == {"e1", "e2"}

----------------------------------------------------------------------------
(* Python values *)

Return(v) == [kind |-> "return", val |-> v, exc |-> ""]
Raise(e)  == [kind |-> "raise", val |-> <<>>, exc |-> e]

Min(a, b) == IF a < b THEN a ELSE b

\* str.strip(): leading and trailing whitespace removed
RECURSIVE lstrip(_)
lstrip(s) ==
  IF s = <<>> THEN <<>>
  ELSE IF Head(s) \in Whitespace THEN lstrip(Tail(s)) ELSE s

RECURSIVE rstrip(_)
rstrip(s) ==
  IF s = <<>> THEN <<>>
  ELSE IF s[Len(s)] \in Whitespace THEN rstrip(SubSeq(s, 1, Len(s) - 1)) ELSE s

strip(s) == rstrip(lstrip(s))

----------------------------------------------------------------------------
(* The hosted services, as the code sees them.  w is the world at the      *)
(* instant of the call: [cohere, qdrant, model, index].                    *)

CohereStates == {"ok", "empty_vector", "no_embeddings", "unreachable", "rejects"}
QdrantStates == {"ok", "down"}
ModelStates  == {"up", "down"}

\* stored points, in descending relevance: a payload with a text, a payload
\* without the "text" key, and a point whose payload is None
TextPoint      == [hasPayload |-> TRUE,  hasText |-> TRUE,  text |-> "chunk"]
NoTextPoint    == [hasPayload |-> TRUE,  hasText |-> FALSE, text |-> ""]
NoPayloadPoint == [hasPayload |-> FALSE, hasText |-> FALSE, text |-> ""]
Points == {TextPoint, NoTextPoint, NoPayloadPoint}

Defects(idx) == Cardinality({i \in 1..Len(idx) : ~idx[i].hasText})

\* a non-empty vector that depends on the text
Vector(text) == <<Len(text), 1>>

\* cohere_client.embed(model=..., input_type="search_query", texts=[text])
CohereEmbed(w, text) ==
  CASE w.cohere = "ok"            -> Return(<<Vector(text)>>)
    [] w.cohere = "empty_vector"  -> Return(<< <<>> >>)
    [] w.cohere = "no_embeddings" -> Return(<<>>)
    [] w.cohere = "unreachable"   -> Raise("cohere:ConnectionError")
    [] w.cohere = "rejects"       -> Raise("cohere:ApiError")

\* qdrant_client.query_points(collection_name=..., query=..., limit=...):
\* the limit nearest points, fewer if the index holds fewer
QdrantQuery(w, collection, vec, limit) ==
  IF w.qdrant = "down" THEN Raise("qdrant:ConnectionError")
  ELSE IF collection # "humanoid_ai_book" THEN Raise("qdrant:NotFound")
  ELSE IF vec = <<>> THEN Raise("qdrant:BadVector")
  ELSE Return(SubSeq(w.index, 1, Min(limit, Len(w.index))))

\* what the services saw: one record per call made to them
EmbedCall(text, r) ==
  [svc |-> "cohere", collection |-> "", limit |-> 0, vec |-> <<>>,
   ok |-> (r.kind = "return"), indexSize |-> 0]
SearchCall(w, collection, vec, limit, r) ==
  [svc |-> "qdrant", collection |-> collection, limit |-> limit, vec |-> vec,
   ok |-> (r.kind = "return"), indexSize |-> Len(w.index)]

\* print(tag, e)
LogLine(tag, e) == [tag |-> tag, exc |-> e]

----------------------------------------------------------------------------
(* get_embedding *)

Embedded(calls, log, out) == [calls |-> calls, log |-> log, out |-> out]

\* get_embedding with a second attempt after a failed one
get_embedding_retry(w, text) ==
  LET r1 == CohereEmbed(w, text)
      r2 == CohereEmbed(w, text)
      c1 == EmbedCall(text, r1)
      c2 == EmbedCall(text, r2)
  IN  IF r1.kind = "return" /\ r1.val # <<>>
      THEN Embedded(<<c1>>, <<>>, Return(r1.val[1]))
      ELSE IF r2.kind = "return" /\ r2.val # <<>>
      THEN Embedded(<<c1, c2>>, <<>>, Return(r2.val[1]))
      ELSE Embedded(<<c1, c2>>, <<LogLine("Cohere embedding error:", r2.exc)>>,
                    Return(<<>>))

\* main.py: every exception becomes the empty list
get_embedding(w, text) ==
  LET r    == CohereEmbed(w, text)
      call == EmbedCall(text, r)
  IN  IF r.kind = "raise"
      THEN Embedded(<<call>>, <<LogLine("Cohere embedding error:", r.exc)>>,
                    Return(<<>>))
      ELSE IF r.val = <<>>   \* response.embeddings[0] raises IndexError
      THEN Embedded(<<call>>, <<LogLine("Cohere embedding error:", "IndexError")>>,
                    Return(<<>>))
      ELSE Embedded(<<call>>, <<>>, Return(r.val[1]))

\* fastapi_rag_agent.py, rag_agents.py, retrieving.py: no try/except
get_embedding_plain(w, text) ==
  LET r    == CohereEmbed(w, text)
      call == EmbedCall(text, r)
  IN  IF r.kind = "raise" THEN Embedded(<<call>>, <<>>, Raise(r.exc))
      ELSE IF r.val = <<>> THEN Embedded(<<call>>, <<>>, Raise("IndexError"))
      ELSE Embedded(<<call>>, <<>>, Return(r.val[1]))

----------------------------------------------------------------------------
(* retrieve *)

\* one invocation of retrieve: its argument, the external calls it made in
\* order, what it printed, what get_embedding gave it, the points the search
\* returned (<<>> when there was no successful search) and its outcome
Retrieval(query, calls, log, embedding, points, out) ==
  [query |-> query, calls |-> calls, log |-> log, embedding |-> embedding,
   points |-> points, out |-> out]

\* [point.payload.get("text", "") for point in result.points]
texts_get(points) ==
  IF \E i \in 1..Len(points) : ~points[i].hasPayload
  THEN Raise("AttributeError")
  ELSE Return([i \in 1..Len(points) |->
                 IF points[i].hasText THEN points[i].text ELSE ""])

\* [point.payload["text"] for point in result.points]
texts_index(points) ==
  IF \E i \in 1..Len(points) : ~points[i].hasText
  THEN LET i == CHOOSE j \in 1..Len(points) :
                  /\ ~points[j].hasText
                  /\ \A k \in 1..(j-1) : points[k].hasText
       IN  Raise(IF points[i].hasPayload THEN "KeyError" ELSE "TypeError")
  ELSE Return([i \in 1..Len(points) |-> points[i].text])

\* retrieve without its try/except: exceptions reach the caller
retrieve_no_except(w, query) ==
  LET e == get_embedding(w, query)
  IN  IF e.out.kind = "raise"
      THEN Retrieval(query, e.calls, e.log, e.out, <<>>, e.out)
      ELSE IF e.out.val = <<>>
      THEN Retrieval(query, e.calls, e.log, e.out, <<>>, Return(<<>>))
      ELSE
        LET s     == QdrantQuery(w, collection_name, e.out.val, top_k)
            calls == e.calls \o <<SearchCall(w, collection_name, e.out.val, top_k, s)>>
        IN  IF s.kind = "raise"
            THEN Retrieval(query, calls, e.log, e.out, <<>>, Raise(s.exc))
            ELSE Retrieval(query, calls, e.log, e.out, s.val, texts_get(s.val))

\* retrieve without "if not embedding: return []"
retrieve_no_empty_check(w, query) ==
  LET e     == get_embedding(w, query)
      s     == QdrantQuery(w, collection_name, e.out.val, top_k)
      calls == e.calls \o <<SearchCall(w, collection_name, e.out.val, top_k, s)>>
  IN  IF s.kind = "raise"
      THEN Retrieval(query, calls,
                     e.log \o <<LogLine("Qdrant retrieve error:", s.exc)>>,
                     e.out, <<>>, Return(<<>>))
      ELSE
        LET t == texts_get(s.val)
        IN  IF t.kind = "raise"
            THEN Retrieval(query, calls,
                           e.log \o <<LogLine("Qdrant retrieve error:", t.exc)>>,
                           e.out, s.val, Return(<<>>))
            ELSE Retrieval(query, calls, e.log, e.out, s.val, t)

\* main.py
retrieve(w, query) ==
  LET e == get_embedding(w, query)
  IN  IF e.out.kind = "raise"
      THEN Retrieval(query, e.calls,
                     e.log \o <<LogLine("Qdrant retrieve error:", e.out.exc)>>,
                     e.out, <<>>, Return(<<>>))
      ELSE IF e.out.val = <<>>
      THEN Retrieval(query, e.calls, e.log, e.out, <<>>, Return(<<>>))
      ELSE
        LET s     == QdrantQuery(w, collection_name, e.out.val, top_k)
            calls == e.calls \o <<SearchCall(w, collection_name, e.out.val, top_k, s)>>
        IN  IF s.kind = "raise"
            THEN Retrieval(query, calls,
                           e.log \o <<LogLine("Qdrant retrieve error:", s.exc)>>,
                           e.out, <<>>, Return(<<>>))
            ELSE
              LET t == texts_get(s.val)
              IN  IF t.kind = "raise"
                  THEN Retrieval(query, calls,
                                 e.log \o <<LogLine("Qdrant retrieve error:", t.exc)>>,
                                 e.out, s.val, Return(<<>>))
                  ELSE Retrieval(query, calls, e.log, e.out, s.val, t)

\* fastapi_rag_agent.py, rag_agents.py, retrieving.py
retrieve_plain(w, query) ==
  LET e == get_embedding_plain(w, query)
  IN  IF e.out.kind = "raise"
      THEN Retrieval(query, e.calls, e.log, e.out, <<>>, e.out)
      ELSE
        LET s     == QdrantQuery(w, collection_name, e.out.val, top_k)
            calls == e.calls \o <<SearchCall(w, collection_name, e.out.val, top_k, s)>>
        IN  IF s.kind = "raise"
            THEN Retrieval(query, calls, e.log, e.out, <<>>, Raise(s.exc))
            ELSE Retrieval(query, calls, e.log, e.out, s.val, texts_index(s.val))

\* the retrieve tool of the running file
retrieve_tool(f, w, query) ==
  IF f = "main.py" THEN retrieve(w, query) ELSE retrieve_plain(w, query)

\* get_embedding of the running file
embedding_of(f, w, text) ==
  IF f = "main.py" THEN get_embedding(w, text) ELSE get_embedding_plain(w, text)

----------------------------------------------------------------------------
(* The agent runtime.  Runner.run_sync(agent, input=...) is external code: *)
(* the model decides how often the retrieve tool is invoked (k times) and  *)
(* the run ends with a final output or with an exception (o).              *)

RunResult(kind, final, exc) == [kind |-> kind, final |-> final, exc |-> exc]
NoRun == RunResult("none", "", "")
RunOutcomes ==
  {RunResult("return", "ANSWER", ""), RunResult("return", "", "")}
    \cup {RunResult("raise", "", e) : e \in ExcTexts}

\* what the runtime can do in world w: with the model provider down the
\* first model call fails, before any tool is invoked
RunChoices(w) ==
  {<<k, o>> \in (0..MaxToolCalls) \X RunOutcomes :
      w.model = "down" => (k = 0 /\ o.kind = "raise")}

Run(f, w, input, k, o) ==
  [retrievals |-> [i \in 1..k |-> retrieve_tool(f, w, input)], out |-> o]

----------------------------------------------------------------------------
(* The request handlers.  A Response is what one handled request left:     *)
(* route and query, status and body of the answer, what the handler        *)
(* printed, how often it invoked the runner, the outcome of that run and   *)
(* the invocations of retrieve made during it.                             *)

Response(route, query, status, key, val, log, runnerCalls, run, retrievals) ==
  [route |-> route, query |-> query, status |-> status,
   body |-> [key |-> key, val |-> val], log |-> log,
   runnerCalls |-> runnerCalls, run |-> run, retrievals |-> retrievals]

NoRequest == Response("none", <<>>, 0, "", "", <<>>, 0, NoRun, <<>>)

\* main.py, POST /ask
ask_agent(w, query, k, o) ==
  IF strip(query) = <<>>
  THEN Response("POST /ask", query, 200, "answer", "Query is empty.",
                <<>>, 0, NoRun, <<>>)
  ELSE
    LET r == Run("main.py", w, query, k, o)
    IN  IF r.out.kind = "raise"
        THEN Response("POST /ask", query, 500, "detail",
                      "Internal server error. Check backend logs.",
                      <<LogLine("Agent error:", r.out.exc)>>, 1, r.out, r.retrievals)
        ELSE Response("POST /ask", query, 200, "answer",
                      IF r.out.final = "" THEN "I don't know" ELSE r.out.final,
                      <<>>, 1, r.out, r.retrievals)

\* fastapi_rag_agent.py, POST /ask
ask_agent_fastapi(w, query, k, o) ==
  LET r == Run("fastapi_rag_agent.py", w, query, k, o)
  IN  IF r.out.kind = "raise"
      THEN Response("POST /ask", query, 500, "detail", r.out.exc,
                    <<>>, 1, r.out, r.retrievals)
      ELSE Response("POST /ask", query, 200, "answer", r.out.final,
                    <<>>, 1, r.out, r.retrievals)

\* a root that reports the health of the services it depends on
root_health(w) ==
  IF w.cohere \in {"unreachable", "rejects"} \/ w.qdrant = "down" \/ w.model = "down"
  THEN Response("GET /", <<>>, 503, "message", "degraded", <<>>, 0, NoRun, <<>>)
  ELSE Response("GET /", <<>>, 200, "message", "Humanoid AI RAG Agent is running",
                <<>>, 0, NoRun, <<>>)

\* GET / (the same in main.py and fastapi_rag_agent.py)
root(w) ==
  Response("GET /", <<>>, 200, "message", "Humanoid AI RAG Agent is running",
           <<>>, 0, NoRun, <<>>)

\* rag_agents.py, the __main__ block: an exception ends the process
main_block(w, k, o) ==
  LET r == Run("rag_agents.py", w, ScriptQuery, k, o)
  IN  IF r.out.kind = "raise"
      THEN Response("__main__", ScriptQuery, 1, "traceback", r.out.exc,
                    <<>>, 1, r.out, r.retrievals)
      ELSE Response("__main__", ScriptQuery, 0, "stdout", r.out.final,
                    <<>>, 1, r.out, r.retrievals)

\* retrieving.py, print(retrieve(...))
test_retrieve(w) ==
  LET r == retrieve_plain(w, ScriptQuery)
  IN  IF r.out.kind = "raise"
      THEN Response("test", ScriptQuery, 1, "traceback", r.out.exc,
                    <<>>, 0, NoRun, <<r>>)
      ELSE Response("test", ScriptQuery, 0, "stdout", "list",
                    <<>>, 0, NoRun, <<r>>)

----------------------------------------------------------------------------
(* Module level code *)

\* the check written as "if value is None": an empty value passes
missing_vars_none_only(e) == {k \in RequiredVars : e[k] = None}

\* main.py: the keys whose value is None or empty ("if not value")
missing_vars(e) == {k \in RequiredVars : e[k] = None \/ e[k] = <<"">>}

\* fastapi_rag_agent.py, rag_agents.py: all([...])
all_set(e) == \A k \in RequiredVars : e[k] # None /\ e[k] # <<"">>

\* the exception the environment check of file f raises, "" if none
env_check(f, e) ==
  IF f = "main.py"
  THEN (IF missing_vars(e) # {} THEN "RuntimeError" ELSE "")
  ELSE (IF ~all_set(e) THEN "ValueError" ELSE "")

W == [cohere |-> cohereSvc, qdrant |-> qdrantSvc, model |-> modelSvc,
      index |-> index]

EnvAllUnset == [k \in RequiredVars |-> None]
EnvAllSet   == [k \in RequiredVars |-> <<"secret">>]

Init ==
  /\ file \in Files
  /\ env \in [RequiredVars -> EnvValues]
  \* retrieving.py reads no environment variable
  /\ file = "retrieving.py" => env \in {EnvAllUnset, EnvAllSet}
  /\ pc = IF file = "retrieving.py" THEN "cohere" ELSE "env"
  /\ fatal = ""
  /\ constructed = {}
  /\ routes = {}
  /\ cohereSvc = "ok"
  /\ qdrantSvc = "ok"
  /\ modelSvc = "up"
  /\ index = <<>>
  /\ last = NoRequest

\* os.getenv x4 and the check that follows
CheckEnv ==
  /\ pc = "env"
  /\ fatal' = env_check(file, env)
  /\ pc' = IF fatal' # "" THEN "aborted" ELSE "provider"
  /\ UNCHANGED <<file, env, constructed, routes,
                 cohereSvc, qdrantSvc, modelSvc, index, last>>

\* provider = AsyncOpenAI(...); model = OpenAIChatCompletionsModel(...)
ConstructProvider ==
  /\ pc = "provider"
  /\ constructed' = constructed \cup {"provider", "model"}
  /\ pc' = "cohere"
  /\ UNCHANGED <<file, env, fatal, routes,
                 cohereSvc, qdrantSvc, modelSvc, index, last>>

\* cohere_client = cohere.Client(...)
ConstructCohere ==
  /\ pc = "cohere"
  /\ constructed' = constructed \cup {"cohere_client"}
  /\ pc' = "qdrant"
  /\ UNCHANGED <<file, env, fatal, routes,
                 cohereSvc, qdrantSvc, modelSvc, index, last>>

\* qdrant_client = QdrantClient(...)
ConstructQdrant ==
  /\ pc = "qdrant"
  /\ constructed' = constructed \cup {"qdrant_client"}
  /\ pc' = IF file = "retrieving.py" THEN "test" ELSE "agent"
  /\ UNCHANGED <<file, env, fatal, routes,
                 cohereSvc, qdrantSvc, modelSvc, index, last>>

\* @function_tool def retrieve; agent = Agent(...)
DefineAgent ==
  /\ pc = "agent"
  /\ constructed' = constructed \cup {"agent"}
  /\ pc' = IF file = "rag_agents.py" THEN "main" ELSE "app"
  /\ UNCHANGED <<file, env, fatal, routes,
                 cohereSvc, qdrantSvc, modelSvc, index, last>>

\* app = FastAPI(...); @app.post("/ask"); @app.get("/")
CreateApp ==
  /\ pc = "app"
  /\ constructed' = constructed \cup {"app"}
  /\ routes' = {"POST /ask", "GET /"}
  /\ pc' = "serving"
  /\ UNCHANGED <<file, env, fatal,
                 cohereSvc, qdrantSvc, modelSvc, index, last>>

----------------------------------------------------------------------------
(* Requests.  One request is handled at a time; its Response stays in last *)
(* until it has been sent.                                                 *)

AskAgent ==
  /\ pc = "serving"
  /\ "POST /ask" \in routes
  /\ last = NoRequest
  /\ \E q \in Queries : \E c \in RunChoices(W) :
       last' = IF file = "main.py"
               THEN ask_agent(W, q, c[1], c[2])
               ELSE ask_agent_fastapi(W, q, c[1], c[2])
  /\ UNCHANGED <<file, env, pc, fatal, constructed, routes,
                 cohereSvc, qdrantSvc, modelSvc, index>>

Root ==
  /\ pc = "serving"
  /\ "GET /" \in routes
  /\ last = NoRequest
  /\ last' = root(W)
  /\ UNCHANGED <<file, env, pc, fatal, constructed, routes,
                 cohereSvc, qdrantSvc, modelSvc, index>>

Deliver ==
  /\ pc = "serving"
  /\ last # NoRequest
  /\ last' = NoRequest
  /\ UNCHANGED <<file, env, pc, fatal, constructed, routes,
                 cohereSvc, qdrantSvc, modelSvc, index>>

\* rag_agents.py: if __name__ == "__main__"
MainBlock ==
  /\ pc = "main"
  /\ \E c \in RunChoices(W) : last' = main_block(W, c[1], c[2])
  /\ pc' = "exited"
  /\ UNCHANGED <<file, env, fatal, constructed, routes,
                 cohereSvc, qdrantSvc, modelSvc, index>>

\* retrieving.py: the test at the end of the file
TestRetrieve ==
  /\ pc = "test"
  /\ last' = test_retrieve(W)
  /\ pc' = "exited"
  /\ UNCHANGED <<file, env, fatal, constructed, routes,
                 cohereSvc, qdrantSvc, modelSvc, index>>

----------------------------------------------------------------------------
(* The environment drifts while no request is being handled *)

Quiet == pc \in {"serving", "main", "test"} /\ last = NoRequest

CohereDrift ==
  /\ Quiet
  /\ \E s \in CohereStates \ {cohereSvc} : cohereSvc' = s
  /\ UNCHANGED <<file, env, pc, fatal, constructed, routes,
                 qdrantSvc, modelSvc, index, last>>

QdrantDrift ==
  /\ Quiet
  /\ \E s \in QdrantStates \ {qdrantSvc} : qdrantSvc' = s
  /\ UNCHANGED <<file, env, pc, fatal, constructed, routes,
                 cohereSvc, modelSvc, index, last>>

ModelDrift ==
  /\ Quiet
  /\ \E s \in ModelStates \ {modelSvc} : modelSvc' = s
  /\ UNCHANGED <<file, env, pc, fatal, constructed, routes,
                 cohereSvc, qdrantSvc, index, last>>

\* a point is stored at rank i (ingestion happens elsewhere)
IndexUpsert ==
  /\ Quiet
  /\ Len(index) < IndexMax
  /\ \E p \in Points : \E i \in 0..Len(index) :
       /\ index' = SubSeq(index, 1, i) \o <<p>> \o SubSeq(index, i + 1, Len(index))
       /\ Defects(index') <= MaxDefects
  /\ UNCHANGED <<file, env, pc, fatal, constructed, routes,
                 cohereSvc, qdrantSvc, modelSvc, last>>

IndexDelete ==
  /\ Quiet
  /\ \E i \in 1..Len(index) :
       index' = SubSeq(index, 1, i - 1) \o SubSeq(index, i + 1, Len(index))
  /\ UNCHANGED <<file, env, pc, fatal, constructed, routes,
                 cohereSvc, qdrantSvc, modelSvc, last>>

Next ==
  \/ CheckEnv
  \/ ConstructProvider
  \/ ConstructCohere
  \/ ConstructQdrant
  \/ DefineAgent
  \/ CreateApp
  \/ AskAgent
  \/ Root
  \/ Deliver
  \/ MainBlock
  \/ TestRetrieve
  \/ CohereDrift
  \/ QdrantDrift
  \/ ModelDrift
  \/ IndexUpsert
  \/ IndexDelete

Spec == Init /\ [][Next]_vars

----------------------------------------------------------------------------
(* Properties *)

\* the invocations of retrieve made while the last request was handled
Invocations == {last.retrievals[i] : i \in 1..Len(last.retrievals)}
CallsTo(r, svc) == {i \in 1..Len(r.calls) : r.calls[i].svc = svc}
Blank(q) == \A i \in 1..Len(q) : q[i] \in Whitespace
AnyMissing == \E k \in RequiredVars : env[k] = None \/ env[k] = <<"">>

\* C1: a POST /ask whose query is empty or all whitespace is answered 200
\* {"answer": "Query is empty."}, and neither the runner nor retrieve (hence
\* neither the embedding service nor the vector search) is invoked for it.
C1_BlankQueryShortCircuits ==
  (last.route = "POST /ask" /\ Blank(last.query)) =>
     /\ last.status = 200
     /\ last.body = [key |-> "answer", val |-> "Query is empty."]
     /\ last.runnerCalls = 0
     /\ last.retrievals = <<>>

\* C2: retrieve of main.py always returns; when the embedding call, the
\* vector search or the extraction of a point's text failed it returns [].
C2_RetrieveNeverRaises ==
  file = "main.py" =>
    \A r \in Invocations :
      /\ r.out.kind = "return"
      /\ ( \/ \E i \in 1..Len(r.calls) : ~r.calls[i].ok
           \/ r.embedding.kind = "raise"
           \/ \E i \in 1..Len(r.points) : ~r.points[i].hasPayload )
         => r.out.val = <<>>

C2_Witness ==
  /\ file = "main.py"
  /\ \E r \in Invocations :
       \E i \in CallsTo(r, "qdrant") : ~r.calls[i].ok /\ r.out = Return(<<>>)

\* C3: when the agent run of a POST /ask fails, the answer is 500 with the
\* fixed detail, whatever the exception, and the cause is printed server-side.
C3_GenericInternalError ==
  (last.route = "POST /ask" /\ last.run.kind = "raise") =>
     /\ last.status = 500
     /\ last.body = [key |-> "detail",
                     val |-> "Internal server error. Check backend logs."]
     /\ last.log = <<LogLine("Agent error:", last.run.exc)>>

\* C4: with a required setting absent or empty, a service file constructs no
\* client, registers no route and never handles a request: start-up ends in
\* the fatal error of the environment check.
C4_NoPartialStartup ==
  (file \in ServiceFiles /\ AnyMissing) =>
     /\ constructed = {}
     /\ routes = {}
     /\ last = NoRequest
     /\ pc \in {"env", "aborted"}
     /\ pc = "aborted" => fatal \in {"RuntimeError", "ValueError"}

C4_Witness ==
  /\ file = "main.py"
  /\ pc = "aborted"
  /\ env["QDRANT_URL"] = <<"">>
  /\ \A k \in RequiredVars \ {"QDRANT_URL"} : env[k] = <<"secret">>

\* C5: a list returned by retrieve has at most 5 entries and at most as many
\* as the index holds; every vector search is made with limit 5 on the
\* collection humanoid_ai_book.
C5_AtMostTopK ==
  \A r \in Invocations :
    /\ r.out.kind = "return" =>
         /\ Len(r.out.val) <= 5
         /\ Len(r.out.val) <= Len(index)
    /\ \A i \in CallsTo(r, "qdrant") :
         /\ r.calls[i].limit = 5
         /\ r.calls[i].collection = "humanoid_ai_book"

C5_Witness ==
  /\ Len(index) > 5
  /\ \E r \in Invocations : r.out.kind = "return" /\ Len(r.out.val) = 5

\* C6: GET / is answered 200 {"message": "Humanoid AI RAG Agent is running"}
\* whatever the health of the three services, and invokes none of them.
C6_RootIsStatic ==
  last.route = "GET /" =>
     /\ last.status = 200
     /\ last.body = [key |-> "message", val |-> "Humanoid AI RAG Agent is running"]
     /\ last.runnerCalls = 0
     /\ last.retrievals = <<>>
     /\ pc = "serving"

C6_Witness ==
  /\ last.route = "GET /"
  /\ cohereSvc = "unreachable"
  /\ qdrantSvc = "down"
  /\ modelSvc = "down"

\* C7: a failed embedding call gives get_embedding, and retrieve, an outcome
\* other than the one a successful call with an empty result gives.
C7_FailureDistinctFromEmpty ==
  \A r \in Invocations :
    (\E i \in CallsTo(r, "cohere") : ~r.calls[i].ok) =>
      LET w0 == [W EXCEPT !.cohere = "empty_vector"]
      IN  /\ r.embedding # embedding_of(file, w0, r.query).out
          /\ r.out # retrieve_tool(file, w0, r.query).out

\* C8: after a successful vector search returning p1..pn, each with a
\* payload, retrieve returns n strings in the order of the points: the text
\* of pi's payload, "" where the payload has no text field.
C8_MissingTextIsEmptyString ==
  \A r \in Invocations :
    ( /\ \E i \in CallsTo(r, "qdrant") : r.calls[i].ok
      /\ \A i \in 1..Len(r.points) : r.points[i].hasPayload ) =>
      /\ r.out.kind = "return"
      /\ Len(r.out.val) = Len(r.points)
      /\ \A i \in 1..Len(r.points) :
           r.out.val[i] = IF r.points[i].hasText THEN r.points[i].text ELSE ""

\* C9: one invocation of retrieve calls the embedding service at most once
\* and the vector search at most once; one request invokes the runner at
\* most once.
C9_NoRetry ==
  /\ last.runnerCalls <= 1
  /\ \A r \in Invocations :
       /\ Cardinality(CallsTo(r, "cohere")) <= 1
       /\ Cardinality(CallsTo(r, "qdrant")) <= 1

C9_Witness ==
  /\ file = "main.py"
  /\ last.run.kind = "raise"
  /\ last.runnerCalls = 1
  /\ Len(last.retrievals) > 1
  /\ \A r \in Invocations : \E i \in CallsTo(r, "cohere") : ~r.calls[i].ok

\* C10: in main.py the vector search of an invocation of retrieve comes after
\* the embedding call of that invocation returned a non-empty vector, which
\* is the vector searched for; otherwise there is no search and retrieve
\* returns [].
C10_SearchOnlyAfterEmbedding ==
  file = "main.py" =>
    \A r \in Invocations :
      /\ \A j \in CallsTo(r, "qdrant") :
           /\ \E i \in CallsTo(r, "cohere") : i < j /\ r.calls[i].ok
           /\ r.embedding.kind = "return"
           /\ r.embedding.val # <<>>
           /\ r.calls[j].vec = r.embedding.val
      /\ (r.embedding.kind = "raise" \/ r.embedding.val = <<>>) =>
           /\ CallsTo(r, "qdrant") = {}
           /\ r.out = Return(<<>>)

C10_Witness ==
  /\ file = "main.py"
  /\ cohereSvc = "empty_vector"
  /\ \E r \in Invocations : r.embedding = Return(<<>>) /\ r.out = Return(<<>>)

====
